---------------------------- MODULE Spec2Model ----------------------------
(***************************************************************************)
(* A model of scripts/label-checker.py: the one-shot PR label / milestone  *)
(* bookkeeping script.                                                     *)
(*                                                                         *)
(* Python strings are modelled as sequences of one-character strings, so   *)
(* that str.startswith, str.endswith, str.lower, str.split and the regular *)
(* expressions of the script are computed character by character.          *)
(*                                                                         *)
(* The remote GitHub state (PR labels, repository label catalog, milestone *)
(* catalog, PR milestone), the git repository (diff and log output) and    *)
(* the work tree (file contents) are state variables; every remote call    *)
(* and every subprocess may fail, which each action chooses with \E.       *)
(***************************************************************************)
EXTENDS Naturals, Sequences, FiniteSets

VARIABLES
    pc,               \* position of the script
    run,              \* number of the current invocation
    abortCause,       \* the call whose exception ended the process ("" if none)
    calls,            \* remote calls issued by this invocation, in order
    prevClean,        \* history: the previous invocation had no failed write call
    prevWrites,       \* history: number of write calls of the previous invocation
    \* ---- environment ----
    configPresent,    \* the five environment variables are set
    gitDiff,          \* stdout lines of `git diff --name-status` when git works
    gitLog,           \* stdout lines of `git log --pretty=format:%s`
    fs,               \* work tree: path -> [readable, content]
    prBase,           \* pr.base.ref on the server
    prLabels,         \* labels on the PR, on the server
    repoCatalog,      \* labels of the repository, on the server
    repoMilestones,   \* milestone titles of the repository, on the server
    prMilestone,      \* title of the PR's milestone on the server (<<>>: none)
    \* ---- script variables ----
    branch,           \* BRANCH_NAME
    pr_title,         \* PR_TITLE
    base_branch,      \* main: base_branch
    files,            \* main: files
    EXPECTED_LABELS,  \* module global
    current_labels,   \* sync_labels
    repo_labels,      \* sync_labels
    pendingCreate,    \* sync_labels: labels the first loop still has to visit
    to_add,           \* sync_labels
    addTodo,          \* sync_labels: labels the add loop still has to visit
    to_remove,        \* sync_labels
    removeTodo,       \* sync_labels: labels the remove loop still has to visit
    milestone_name,   \* set_milestone (<<>>: None)
    target_milestone  \* set_milestone (<<>>: None)

envVars == <<configPresent, gitDiff, gitLog, fs, prBase>>
remoteVars == <<prLabels, repoCatalog, repoMilestones, prMilestone>>
ruleVars == <<branch, pr_title, base_branch, files, EXPECTED_LABELS>>
syncVars == <<current_labels, repo_labels, pendingCreate, to_add, addTodo,
              to_remove, removeTodo>>
msVars == <<milestone_name, target_milestone>>
histVars == <<prevClean, prevWrites>>
vars == <<pc, run, abortCause, calls, histVars, envVars, remoteVars,
          ruleVars, syncVars, msVars>>

(***************************************************************************)
(* Bounds of the model.                                                    *)
(***************************************************************************)
MaxFiles == 2      \* lines of git diff output
MaxCommits == 1    \* lines of git log output
MaxRuns == 2       \* invocations of sync_labels on the same PR

(***************************************************************************)
(* Characters and string literals.                                         *)
(***************************************************************************)
UpperChars == <<"A", "B", "C", "D", "E", "F", "G", "H", "I", "J", "K", "L", "M", "N", "O", "P", "Q", "R", "S", "T", "U", "V", "W", "X", "Y", "Z">>
LowerChars == <<"a", "b", "c", "d", "e", "f", "g", "h", "i", "j", "k", "l", "m", "n", "o", "p", "q", "r", "s", "t", "u", "v", "w", "x", "y", "z">>
DigitChars == <<"0", "1", "2", "3", "4", "5", "6", "7", "8", "9">>
TAB == "\t"
None == << >>

L_IMPEX == <<"I", "M", "P", "E", "X">>
L_ITEMS == <<"I", "T", "E", "M", "S">>
L_CACHE == <<"C", "A", "C", "H", "E">>
L_conflict == <<"c", "o", "n", "f", "l", "i", "c", "t">>
L_PROJ_42 == <<"P", "R", "O", "J", "-", "4", "2">>
L_AB_1 == <<"A", "B", "-", "1">>
L_bug == <<"b", "u", "g">>

SUFFIX_impex == <<".", "i", "m", "p", "e", "x">>
SUFFIX_items == <<"-", "i", "t", "e", "m", "s", ".", "x", "m", "l">>
SUFFIX_java == <<".", "j", "a", "v", "a">>
PREFIX_conflict == <<"c", "o", "n", "f", "l", "i", "c", "t">>
MARKER_cacheable == <<"@", "c", "a", "c", "h", "e", "a", "b", "l", "e">>
MARKER_cacheble == <<"@", "c", "a", "c", "h", "e", "b", "l", "e">>
STATUS_D == <<"D">>

PREFIX_development == <<"d", "e", "v", "e", "l", "o", "p", "m", "e", "n", "t">>
PREFIX_marketplace == <<"f", "e", "a", "t", "u", "r", "e", "/", "m", "a", "r", "k", "e", "t", "p", "l", "a", "c", "e">>
PREFIX_upgrade == <<"r", "e", "l", "e", "a", "s", "e", "/", "u", "p", "g", "r", "a", "d", "e">>
PREFIX_offline_kasa == <<"o", "f", "f", "l", "i", "n", "e", "_", "k", "a", "s", "a">>
M_sprint_dev == <<"s", "p", "r", "i", "n", "t", "-", "d", "e", "v">>
M_marketplace == <<"m", "a", "r", "k", "e", "t", "p", "l", "a", "c", "e">>
M_cloud == <<"c", "l", "o", "u", "d">>
M_offline_kasa == <<"o", "f", "f", "l", "i", "n", "e", "-", "k", "a", "s", "a">>

(***************************************************************************)
(* Input values the initial states draw from.                              *)
(***************************************************************************)
M_backlog == <<"b", "a", "c", "k", "l", "o", "g">>
B_development_foo == <<"d", "e", "v", "e", "l", "o", "p", "m", "e", "n", "t", "-", "f", "o", "o">>
B_marketplace_x == <<"f", "e", "a", "t", "u", "r", "e", "/", "m", "a", "r", "k", "e", "t", "p", "l", "a", "c", "e", "-", "x">>
B_upgrade_2 == <<"r", "e", "l", "e", "a", "s", "e", "/", "u", "p", "g", "r", "a", "d", "e", "-", "2">>
B_offline_kasa_v2 == <<"o", "f", "f", "l", "i", "n", "e", "_", "k", "a", "s", "a", "_", "v", "2">>
B_hotfix_123 == <<"h", "o", "t", "f", "i", "x", "/", "1", "2", "3">>
B_dev == <<"d", "e", "v">>
H_PROJ_42_fix == <<"P", "R", "O", "J", "-", "4", "2", "-", "f", "i", "x">>
H_Conflict_AB_1 == <<"C", "o", "n", "f", "l", "i", "c", "t", "/", "A", "B", "-", "1">>
H_my_conflict == <<"m", "y", "-", "c", "o", "n", "f", "l", "i", "c", "t">>
T_PROJ_42_fix_bug == <<"P", "R", "O", "J", "-", "4", "2", ":", " ", "f", "i", "x", " ", "b", "u", "g">>
S_AB_1_init == <<"A", "B", "-", "1", " ", "i", "n", "i", "t">>
P_x_impex == <<"m", "o", "d", "u", "l", "e", "/", "x", ".", "i", "m", "p", "e", "x">>
P_old_items == <<"o", "l", "d", "-", "i", "t", "e", "m", "s", ".", "x", "m", "l">>
P_Service_java == <<"S", "e", "r", "v", "i", "c", "e", ".", "j", "a", "v", "a">>
P_impex_bak == <<"x", ".", "i", "m", "p", "e", "x", ".", "b", "a", "k">>
C_Cacheable == <<"@", "C", "a", "c", "h", "e", "a", "b", "l", "e">>
C_CACHEBLE == <<"x", " ", "@", "C", "A", "C", "H", "E", "B", "L", "E">>
C_plain == <<"c", "a", "c", "h", "e", "a", "b", "l", "e">>

(***************************************************************************)
(* Python string operations.                                               *)
(***************************************************************************)
InSeq(c, s) == \E i \in 1..Len(s) : s[i] = c

IsUpper(c) == InSeq(c, UpperChars)

IsDigit(c) == InSeq(c, DigitChars)

LowerChar(c) ==
    IF IsUpper(c)
    THEN LowerChars[CHOOSE i \in 1..Len(UpperChars) : UpperChars[i] = c]
    ELSE c

\* str.lower()
Lower(s) == [i \in 1..Len(s) |-> LowerChar(s[i])]

\* str.startswith(p)
StartsWith(s, p) == Len(s) >= Len(p) /\ SubSeq(s, 1, Len(p)) = p

\* str.endswith(p)
EndsWith(s, p) ==
    Len(s) >= Len(p) /\ SubSeq(s, Len(s) - Len(p) + 1, Len(s)) = p

\* p occurs in s
Contains(s, p) ==
    \E i \in 1..(Len(s) + 1) :
        i + Len(p) - 1 <= Len(s) /\ SubSeq(s, i, i + Len(p) - 1) = p

\* position of the first tab of a line, 0 if it has none
FirstTab(line) ==
    IF InSeq(TAB, line)
    THEN CHOOSE i \in 1..Len(line) :
            line[i] = TAB /\ \A j \in 1..(i - 1) : line[j] # TAB
    ELSE 0

\* last index of the run of digits that starts at i
RECURSIVE DigitsEnd(_, _)
DigitsEnd(s, i) ==
    IF i + 1 <= Len(s) /\ IsDigit(s[i + 1]) THEN DigitsEnd(s, i + 1) ELSE i

\* re.match(r"[A-Z]{2,4}-\d+") at position i: the index of the last matched
\* character, 0 if there is no match there
MatchKeyAt(s, i) ==
    LET ks == {k \in 2..4 :
                  /\ i + k + 1 <= Len(s)
                  /\ \A j \in 0..(k - 1) : IsUpper(s[i + j])
                  /\ s[i + k] = "-"
                  /\ IsDigit(s[i + k + 1])}
    IN  IF ks = {} THEN 0
        ELSE LET k == CHOOSE x \in ks : \A y \in ks : y <= x
             IN  DigitsEnd(s, i + k + 1)

\* set(re.findall(r"[A-Z]{2,4}-\d+", s)), scanning from position i
RECURSIVE FindAllFrom(_, _)
FindAllFrom(s, i) ==
    IF i > Len(s) THEN {}
    ELSE LET e == MatchKeyAt(s, i)
         IN  IF e = 0 THEN FindAllFrom(s, i + 1)
             ELSE {SubSeq(s, i, e)} \cup FindAllFrom(s, e + 1)

FindAllKeys(s) == FindAllFrom(s, 1)

\* re.match(r"[A-Z]{2,4}-\d+", label)
IsTicketKey(label) == MatchKeyAt(label, 1) # 0

\* re.search(r"@cacheable|@cacheble", content, re.IGNORECASE)
HasCacheMarker(content) ==
    \/ Contains(Lower(content), MARKER_cacheable)
    \/ Contains(Lower(content), MARKER_cacheble)

(***************************************************************************)
(* get_changed_files: the parse of git's output.                           *)
(***************************************************************************)
\* one output line "status<TAB>path" -> (status, path), split at the first tab
SplitLine(line) ==
    [status |-> SubSeq(line, 1, FirstTab(line) - 1),
     path   |-> SubSeq(line, FirstTab(line) + 1, Len(line))]

\* the loop of get_changed_files: lines without a tab are dropped
RECURSIVE ParseDiff(_)
ParseDiff(lines) ==
    IF lines = << >> THEN << >>
    ELSE IF InSeq(TAB, Head(lines))
         THEN <<SplitLine(Head(lines))>> \o ParseDiff(Tail(lines))
         ELSE ParseDiff(Tail(lines))

(***************************************************************************)
(* check_label_conditions.                                                 *)
(***************************************************************************)
\* faulty variant: deleted files are scanned like the others
IsDeleted_never(status) == FALSE

\* if status == "D": continue
IsDeleted(status) == status = STATUS_D

\* open(file).read() succeeds
Readable(fsys, path) == path \in DOMAIN fsys /\ fsys[path].readable

\* the body of the for loop for one record, on the three flags
ScanFile(f, fsys, flags) ==
    IF IsDeleted(f.status) THEN flags
    ELSE [has_impex |-> flags.has_impex \/ EndsWith(f.path, SUFFIX_impex),
          has_items |-> flags.has_items \/ EndsWith(f.path, SUFFIX_items),
          has_cache |->
              \/ flags.has_cache
              \/ /\ EndsWith(f.path, SUFFIX_java)
                 /\ Readable(fsys, f.path)
                 /\ HasCacheMarker(fsys[f.path].content)]

\* the for loop: an unreadable file is skipped (except: continue)
RECURSIVE ScanFiles(_, _, _)
ScanFiles(fl, fsys, flags) ==
    IF fl = << >> THEN flags
    ELSE ScanFiles(Tail(fl), fsys, ScanFile(Head(fl), fsys, flags))

NoFlags == [has_impex |-> FALSE, has_items |-> FALSE, has_cache |-> FALSE]

\* the labels check_label_conditions adds to EXPECTED_LABELS
ConditionLabels(br, fl, fsys) ==
    LET flags == ScanFiles(fl, fsys, NoFlags)
    IN  (IF StartsWith(Lower(br), PREFIX_conflict) THEN {L_conflict} ELSE {})
        \cup (IF flags.has_impex THEN {L_IMPEX} ELSE {})
        \cup (IF flags.has_items THEN {L_ITEMS} ELSE {})
        \cup (IF flags.has_cache THEN {L_CACHE} ELSE {})

(***************************************************************************)
(* extract_issue_keys.                                                     *)
(***************************************************************************)
IssueKeys(br, title, subjects) ==
    FindAllKeys(br) \cup FindAllKeys(title)
    \cup UNION {FindAllKeys(subjects[i]) : i \in 1..Len(subjects)}

(***************************************************************************)
(* sync_labels: the set computations.                                      *)
(***************************************************************************)
system_labels == {L_IMPEX, L_CACHE, L_ITEMS, L_conflict}

\* the first loop issues create_label for this label
NeedsCreate(label, catalog) == IsTicketKey(label) /\ label \notin catalog

\* faulty variant: the catalog is not read again after the creations
RefreshedCatalog_stale(stale, remote) == stale

\* repo_labels = {label.name for label in repo.get_labels()}, read again
RefreshedCatalog(stale, remote) == remote

\* faulty variant: labels missing from the catalog are added too
ToAdd_noCatalog(expected, current, catalog) == expected \ current

\* faulty variant: labels already on the PR are added again
ToAdd_noCurrent(expected, current, catalog) == expected \cap catalog

\* to_add
ToAdd(expected, current, catalog) == (expected \ current) \cap catalog

\* faulty variant: every label that is not expected is removed
ToRemove_anyLabel(current, expected) == current \ expected

\* to_remove
ToRemove(current, expected) == (current \cap system_labels) \ expected

\* faulty variant: a failed add_to_labels ends the add loop
RestAfterAdd_break(todo, label, ok) == IF ok THEN todo \ {label} ELSE {}

\* what the add loop still has to visit after one add_to_labels call
RestAfterAdd(todo, label, ok) == todo \ {label}

(***************************************************************************)
(* set_milestone: the policy table and the fallback chain.                 *)
(***************************************************************************)
\* faulty variant: two milestone names of the table are exchanged
MilestoneFor_swapped(b) ==
    IF StartsWith(b, PREFIX_development) THEN M_sprint_dev
    ELSE IF StartsWith(b, PREFIX_marketplace) THEN M_cloud
    ELSE IF StartsWith(b, PREFIX_upgrade) THEN M_marketplace
    ELSE IF StartsWith(b, PREFIX_offline_kasa) THEN M_offline_kasa
    ELSE None

\* the if/elif chain on base_branch
MilestoneFor(b) ==
    IF StartsWith(b, PREFIX_development) THEN M_sprint_dev
    ELSE IF StartsWith(b, PREFIX_marketplace) THEN M_marketplace
    ELSE IF StartsWith(b, PREFIX_upgrade) THEN M_cloud
    ELSE IF StartsWith(b, PREFIX_offline_kasa) THEN M_offline_kasa
    ELSE None

\* faulty variant: no return after a successful pr.edit
AfterPrEdit_noReturn(ok) == "issue_edit"

\* where set_milestone goes after pr.edit: return on success, else method 2
AfterPrEdit(ok) == IF ok THEN "done" ELSE "issue_edit"

(***************************************************************************)
(* Bookkeeping shared by the actions.                                      *)
(***************************************************************************)
Call(op, arg, ok) == [op |-> op, arg |-> arg, ok |-> ok]

WriteOps == {"create_label", "add_to_labels", "remove_from_labels"}

\* an uncaught exception: the interpreter prints a traceback and exits non-zero
Abort(cause) == pc' = "aborted" /\ abortCause' = cause

GitOutcomes == {"ok", "failed", "unavailable"}

(***************************************************************************)
(* Module level (lines 6-10) and main.                                     *)
(***************************************************************************)
\* os.environ[...]: KeyError when a variable is missing
LoadConfig ==
    /\ pc = "config"
    /\ IF configPresent
       THEN pc' = "get_pull" /\ UNCHANGED abortCause
       ELSE Abort("config")
    /\ UNCHANGED <<run, calls, histVars, envVars, remoteVars, ruleVars,
                   syncVars, msVars>>

\* g.get_repo / repo.get_pull / pr.base.ref
GetPull ==
    /\ pc = "get_pull"
    /\ \E ok \in BOOLEAN :
        IF ok
        THEN /\ pc' = "get_changed_files"
             /\ base_branch' = prBase
             /\ calls' = Append(calls, Call("get_pull", None, TRUE))
             /\ UNCHANGED abortCause
        ELSE /\ Abort("get_pull")
             /\ UNCHANGED <<base_branch, calls>>
    /\ UNCHANGED <<run, histVars, envVars, remoteVars, branch, pr_title,
                   files, EXPECTED_LABELS, syncVars, msVars>>

\* get_changed_files: subprocess.run has no check=True, so a failing git gives
\* an empty stdout; a missing git executable raises FileNotFoundError
GetChangedFiles ==
    /\ pc = "get_changed_files"
    /\ \E outcome \in GitOutcomes :
        CASE outcome = "ok" ->
                /\ files' = ParseDiff(gitDiff)
                /\ pc' = "check_label_conditions"
                /\ UNCHANGED abortCause
          [] outcome = "failed" ->
                /\ files' = ParseDiff(<< >>)
                /\ pc' = "check_label_conditions"
                /\ UNCHANGED abortCause
          [] outcome = "unavailable" ->
                /\ Abort("git_diff")
                /\ UNCHANGED files
    /\ UNCHANGED <<run, calls, histVars, envVars, remoteVars, branch,
                   pr_title, base_branch, EXPECTED_LABELS, syncVars, msVars>>

CheckLabelConditions ==
    /\ pc = "check_label_conditions"
    /\ EXPECTED_LABELS' =
           EXPECTED_LABELS \cup ConditionLabels(branch, files, fs)
    /\ pc' = "extract_issue_keys"
    /\ UNCHANGED <<run, abortCause, calls, histVars, envVars, remoteVars,
                   branch, pr_title, base_branch, files, syncVars, msVars>>

ExtractIssueKeys ==
    /\ pc = "extract_issue_keys"
    /\ \E outcome \in GitOutcomes :
        CASE outcome = "ok" ->
                /\ EXPECTED_LABELS' =
                       EXPECTED_LABELS \cup IssueKeys(branch, pr_title, gitLog)
                /\ pc' = "sync_labels"
                /\ UNCHANGED abortCause
          [] outcome = "failed" ->
                /\ EXPECTED_LABELS' =
                       EXPECTED_LABELS \cup IssueKeys(branch, pr_title, << >>)
                /\ pc' = "sync_labels"
                /\ UNCHANGED abortCause
          [] outcome = "unavailable" ->
                /\ Abort("git_log")
                /\ UNCHANGED EXPECTED_LABELS
    /\ UNCHANGED <<run, calls, histVars, envVars, remoteVars, branch,
                   pr_title, base_branch, files, syncVars, msVars>>

(***************************************************************************)
(* sync_labels.                                                            *)
(***************************************************************************)
\* lines 161-162: the two reads are outside any try
SyncReadLabels ==
    /\ pc = "sync_labels"
    /\ \E ok \in BOOLEAN :
        IF ok
        THEN /\ current_labels' = prLabels
             /\ repo_labels' = repoCatalog
             /\ pendingCreate' = EXPECTED_LABELS
             /\ calls' = calls \o <<Call("pr.get_labels", None, TRUE),
                                    Call("repo.get_labels", None, TRUE)>>
             /\ pc' = "create_labels"
             /\ UNCHANGED abortCause
        ELSE /\ Abort("get_labels")
             /\ UNCHANGED <<current_labels, repo_labels, pendingCreate, calls>>
    /\ UNCHANGED <<run, histVars, envVars, remoteVars, ruleVars, to_add,
                   addTodo, to_remove, removeTodo, msVars>>

CreateOutcomes == {"created", "already_exists", "error"}

\* lines 164-174, one iteration that calls repo.create_label; the iterations
\* that call nothing are taken with it.  "already_exists": the label appeared
\* on the server after repo_labels was read.
SyncCreateLabel ==
    /\ pc = "create_labels"
    /\ \E label \in pendingCreate :
        /\ NeedsCreate(label, repo_labels)
        /\ \E outcome \in CreateOutcomes :
            /\ calls' = Append(calls,
                          Call("create_label", label, outcome = "created"))
            /\ repoCatalog' =
                   IF outcome = "error" THEN repoCatalog
                   ELSE repoCatalog \cup {label}
        /\ pendingCreate' = pendingCreate \ {label}
    /\ UNCHANGED <<pc, run, abortCause, histVars, envVars, prLabels,
                   repoMilestones, prMilestone, ruleVars, current_labels,
                   repo_labels, to_add, addTodo, to_remove, removeTodo, msVars>>

\* lines 176-181: the catalog is read again (outside any try), then to_add
SyncRefreshCatalog ==
    /\ pc = "create_labels"
    /\ \A label \in pendingCreate : ~NeedsCreate(label, repo_labels)
    /\ \E ok \in BOOLEAN :
        IF ok
        THEN /\ repo_labels' = RefreshedCatalog(repo_labels, repoCatalog)
             /\ to_add' = ToAdd(EXPECTED_LABELS, current_labels, repo_labels')
             /\ addTodo' = to_add'
             /\ pendingCreate' = {}
             /\ calls' = Append(calls, Call("repo.get_labels", None, TRUE))
             /\ pc' = "add_labels"
             /\ UNCHANGED abortCause
        ELSE /\ Abort("get_labels")
             /\ UNCHANGED <<repo_labels, to_add, addTodo, pendingCreate, calls>>
    /\ UNCHANGED <<run, histVars, envVars, remoteVars, ruleVars,
                   current_labels, to_remove, removeTodo, msVars>>

\* lines 182-187, one iteration
SyncAddLabel ==
    /\ pc = "add_labels"
    /\ \E label \in addTodo, ok \in BOOLEAN :
        /\ calls' = Append(calls, Call("add_to_labels", label, ok))
        /\ prLabels' = IF ok THEN prLabels \cup {label} ELSE prLabels
        /\ addTodo' = RestAfterAdd(addTodo, label, ok)
    /\ UNCHANGED <<pc, run, abortCause, histVars, envVars, repoCatalog,
                   repoMilestones, prMilestone, ruleVars, current_labels,
                   repo_labels, pendingCreate, to_add, to_remove, removeTodo,
                   msVars>>

\* lines 189-190
SyncComputeRemovals ==
    /\ pc = "add_labels"
    /\ addTodo = {}
    /\ to_remove' = ToRemove(current_labels, EXPECTED_LABELS)
    /\ removeTodo' = to_remove'
    /\ pc' = "remove_labels"
    /\ UNCHANGED <<run, abortCause, calls, histVars, envVars, remoteVars,
                   ruleVars, current_labels, repo_labels, pendingCreate,
                   to_add, addTodo, msVars>>

\* lines 191-196, one iteration
SyncRemoveLabel ==
    /\ pc = "remove_labels"
    /\ \E label \in removeTodo, ok \in BOOLEAN :
        /\ calls' = Append(calls, Call("remove_from_labels", label, ok))
        /\ prLabels' = IF ok THEN prLabels \ {label} ELSE prLabels
        /\ removeTodo' = removeTodo \ {label}
    /\ UNCHANGED <<pc, run, abortCause, histVars, envVars, repoCatalog,
                   repoMilestones, prMilestone, ruleVars, current_labels,
                   repo_labels, pendingCreate, to_add, addTodo, to_remove,
                   msVars>>

\* sync_labels returns; main goes on to set_milestone
SyncReturn ==
    /\ pc = "remove_labels"
    /\ removeTodo = {}
    /\ pc' = "set_milestone"
    /\ UNCHANGED <<run, abortCause, calls, histVars, envVars, remoteVars,
                   ruleVars, syncVars, msVars>>

\* sync_labels is invoked again with the same EXPECTED_LABELS, nothing else
\* having touched the PR or the repository in between
SyncAgain ==
    /\ pc = "set_milestone"
    /\ run < MaxRuns
    /\ run' = run + 1
    /\ prevClean' = \A i \in 1..Len(calls) :
                        calls[i].op \in WriteOps => calls[i].ok
    /\ prevWrites' =
           Cardinality({i \in 1..Len(calls) : calls[i].op \in WriteOps})
    /\ calls' = << >>
    /\ current_labels' = {}
    /\ repo_labels' = {}
    /\ pendingCreate' = {}
    /\ to_add' = {}
    /\ addTodo' = {}
    /\ to_remove' = {}
    /\ removeTodo' = {}
    /\ pc' = "sync_labels"
    /\ UNCHANGED <<abortCause, envVars, remoteVars, ruleVars, msVars>>

(***************************************************************************)
(* set_milestone.                                                          *)
(***************************************************************************)
\* lines 73-87
ResolveMilestone ==
    /\ pc = "set_milestone"
    /\ milestone_name' = MilestoneFor(base_branch)
    /\ pc' = IF milestone_name' = None THEN "done" ELSE "get_milestones"
    /\ UNCHANGED <<run, abortCause, calls, histVars, envVars, remoteVars,
                   ruleVars, syncVars, target_milestone>>

\* lines 91-97: the listing is outside any try
ListMilestones ==
    /\ pc = "get_milestones"
    /\ \E ok \in BOOLEAN :
        IF ok
        THEN /\ calls' = Append(calls, Call("get_milestones", None, TRUE))
             /\ target_milestone' =
                    IF milestone_name \in repoMilestones
                    THEN milestone_name ELSE None
             /\ pc' = IF target_milestone' = None
                      THEN "create_milestone" ELSE "check_assigned"
             /\ UNCHANGED abortCause
        ELSE /\ Abort("get_milestones")
             /\ UNCHANGED <<calls, target_milestone>>
    /\ UNCHANGED <<run, histVars, envVars, remoteVars, ruleVars, syncVars,
                   milestone_name>>

\* lines 99-105
CreateMilestone ==
    /\ pc = "create_milestone"
    /\ \E ok \in BOOLEAN :
        /\ calls' = Append(calls, Call("create_milestone", milestone_name, ok))
        /\ IF ok
           THEN /\ repoMilestones' = repoMilestones \cup {milestone_name}
                /\ target_milestone' = milestone_name
                /\ pc' = "check_assigned"
           ELSE /\ pc' = "done"
                /\ UNCHANGED <<repoMilestones, target_milestone>>
    /\ UNCHANGED <<run, abortCause, histVars, envVars, prLabels, repoCatalog,
                   prMilestone, ruleVars, syncVars, milestone_name>>

\* lines 111-115
CheckAssigned ==
    /\ pc = "check_assigned"
    /\ pc' = IF prMilestone # None /\ prMilestone = milestone_name
             THEN "done" ELSE "pr_edit"
    /\ UNCHANGED <<run, abortCause, calls, histVars, envVars, remoteVars,
                   ruleVars, syncVars, msVars>>

\* lines 118-124
PrEdit ==
    /\ pc = "pr_edit"
    /\ \E ok \in BOOLEAN :
        /\ calls' = Append(calls, Call("pr.edit", target_milestone, ok))
        /\ prMilestone' = IF ok THEN target_milestone ELSE prMilestone
        /\ pc' = AfterPrEdit(ok)
    /\ UNCHANGED <<run, abortCause, histVars, envVars, prLabels, repoCatalog,
                   repoMilestones, ruleVars, syncVars, msVars>>

\* lines 127-134: repo.get_issue and issue.edit share one try
IssueEdit ==
    /\ pc = "issue_edit"
    /\ \E ok \in BOOLEAN :
        /\ calls' = Append(calls, Call("issue.edit", target_milestone, ok))
        /\ prMilestone' = IF ok THEN target_milestone ELSE prMilestone
        /\ pc' = IF ok THEN "done" ELSE "rest_patch"
    /\ UNCHANGED <<run, abortCause, histVars, envVars, prLabels, repoCatalog,
                   repoMilestones, ruleVars, syncVars, msVars>>

\* lines 137-153: status 200, another status and an exception all end the
\* function
RestPatch ==
    /\ pc = "rest_patch"
    /\ \E ok \in BOOLEAN :
        /\ calls' = Append(calls, Call("requests.patch", target_milestone, ok))
        /\ prMilestone' = IF ok THEN target_milestone ELSE prMilestone
        /\ pc' = "done"
    /\ UNCHANGED <<run, abortCause, histVars, envVars, prLabels, repoCatalog,
                   repoMilestones, ruleVars, syncVars, msVars>>

(***************************************************************************)
(* Initial states.                                                         *)
(***************************************************************************)
SeqsUpTo(S, n) == UNION {[1..k -> S] : k \in 0..n}

Line(status, path) == status \o <<TAB>> \o path

DiffLinePool ==
    {Line(<<"M">>, P_x_impex), Line(<<"D">>, P_x_impex),
     Line(<<"M">>, P_old_items), Line(<<"D">>, P_old_items),
     Line(<<"M">>, P_Service_java), Line(<<"A">>, P_impex_bak),
     <<"w", "a", "r", "n">>}

FileStates ==
    {[readable |-> TRUE, content |-> c] :
         c \in {C_Cacheable, C_CACHEBLE, C_plain}}
    \cup {[readable |-> FALSE, content |-> << >>]}

FsStates == [{P_Service_java} -> FileStates]

EndToEndDiff ==
    <<Line(<<"M">>, P_x_impex), Line(<<"D">>, P_old_items),
      Line(<<"M">>, P_Service_java)>>

LabelPool == {L_IMPEX, L_CACHE, L_PROJ_42, L_AB_1, L_bug}

\* the expected sets are drawn from one system label and two ticket keys
ExpectedPool == {L_IMPEX, L_PROJ_42, L_AB_1}

MilestonePool ==
    {M_sprint_dev, M_marketplace, M_cloud, M_offline_kasa, M_backlog}

BasePool ==
    {B_development_foo, B_marketplace_x, B_upgrade_2, B_offline_kasa_v2,
     B_hotfix_123, B_dev}

\* the parts of the state no invocation has written yet
InitLocals ==
    /\ run = 1
    /\ abortCause = ""
    /\ calls = << >>
    /\ prevClean = TRUE
    /\ prevWrites = 0
    /\ files = << >>
    /\ current_labels = {}
    /\ repo_labels = {}
    /\ pendingCreate = {}
    /\ to_add = {}
    /\ addTodo = {}
    /\ to_remove = {}
    /\ removeTodo = {}
    /\ milestone_name = None
    /\ target_milestone = None

\* the whole script, on a few scenarios
Init ==
    /\ InitLocals
    /\ pc = "config"
    /\ configPresent \in BOOLEAN
    /\ branch = H_PROJ_42_fix
    /\ pr_title = T_PROJ_42_fix_bug
    /\ gitDiff \in {<< >>, EndToEndDiff}
    /\ gitLog \in SeqsUpTo({S_AB_1_init}, MaxCommits)
    /\ fs \in {f \in FsStates : f[P_Service_java].content = C_Cacheable}
    /\ prBase \in {B_development_foo, B_hotfix_123}
    /\ base_branch = None
    /\ EXPECTED_LABELS = {}
    /\ repoCatalog = system_labels \cup {L_bug}
    /\ prLabels \in {{L_IMPEX, L_ITEMS, L_bug}, {L_IMPEX, L_CACHE, L_bug}}
    /\ repoMilestones \in {{}, {M_sprint_dev}}
    /\ prMilestone \in {None} \cup repoMilestones

\* the Change Inspector and check_label_conditions, on every bounded diff
InitRules ==
    /\ InitLocals
    /\ pc = "get_changed_files"
    /\ configPresent = TRUE
    /\ branch \in {H_PROJ_42_fix, H_Conflict_AB_1, H_my_conflict}
    /\ pr_title = T_PROJ_42_fix_bug
    /\ gitDiff \in SeqsUpTo(DiffLinePool, MaxFiles)
    /\ gitLog = << >>
    /\ fs \in FsStates
    /\ prBase = B_hotfix_123
    /\ base_branch = prBase
    /\ EXPECTED_LABELS = {}
    /\ repoCatalog = {}
    /\ prLabels = {}
    /\ repoMilestones = {}
    /\ prMilestone = None

\* sync_labels, on every expected set, PR label set and catalog over LabelPool;
\* a label on a PR is a label of its repository
InitSync ==
    /\ InitLocals
    /\ pc = "sync_labels"
    /\ configPresent = TRUE
    /\ branch = H_PROJ_42_fix
    /\ pr_title = T_PROJ_42_fix_bug
    /\ gitDiff = << >>
    /\ gitLog = << >>
    /\ fs \in {f \in FsStates : ~f[P_Service_java].readable}
    /\ prBase = B_hotfix_123
    /\ base_branch = prBase
    /\ EXPECTED_LABELS \in SUBSET ExpectedPool
    /\ repoCatalog \in SUBSET LabelPool
    /\ prLabels \in SUBSET repoCatalog
    /\ repoMilestones = {}
    /\ prMilestone = None

\* set_milestone, on every base branch, milestone catalog and PR milestone
InitMilestone ==
    /\ InitLocals
    /\ pc = "set_milestone"
    /\ configPresent = TRUE
    /\ branch = H_PROJ_42_fix
    /\ pr_title = T_PROJ_42_fix_bug
    /\ gitDiff = << >>
    /\ gitLog = << >>
    /\ fs \in {f \in FsStates : ~f[P_Service_java].readable}
    /\ prBase \in BasePool
    /\ base_branch = prBase
    /\ EXPECTED_LABELS = {}
    /\ repoCatalog = {}
    /\ prLabels = {}
    /\ repoMilestones \in SUBSET MilestonePool
    /\ prMilestone \in {None} \cup repoMilestones

(***************************************************************************)
(* Specifications.                                                         *)
(***************************************************************************)
NextRules ==
    \/ GetChangedFiles
    \/ CheckLabelConditions

NextSync ==
    \/ SyncReadLabels
    \/ SyncCreateLabel
    \/ SyncRefreshCatalog
    \/ SyncAddLabel
    \/ SyncComputeRemovals
    \/ SyncRemoveLabel
    \/ SyncReturn
    \/ SyncAgain

NextMilestone ==
    \/ ResolveMilestone
    \/ ListMilestones
    \/ CreateMilestone
    \/ CheckAssigned
    \/ PrEdit
    \/ IssueEdit
    \/ RestPatch

Next ==
    \/ LoadConfig
    \/ GetPull
    \/ GetChangedFiles
    \/ CheckLabelConditions
    \/ ExtractIssueKeys
    \/ SyncReadLabels
    \/ SyncCreateLabel
    \/ SyncRefreshCatalog
    \/ SyncAddLabel
    \/ SyncComputeRemovals
    \/ SyncRemoveLabel
    \/ SyncReturn
    \/ ResolveMilestone
    \/ ListMilestones
    \/ CreateMilestone
    \/ CheckAssigned
    \/ PrEdit
    \/ IssueEdit
    \/ RestPatch

Spec == Init /\ [][Next]_vars

SpecRules == InitRules /\ [][NextRules]_vars

SpecSync == InitSync /\ [][NextSync]_vars

SpecMilestone == InitMilestone /\ [][NextMilestone]_vars

(***************************************************************************)
(* Reading the call log.                                                   *)
(***************************************************************************)
CallIdx(op) == {i \in 1..Len(calls) : calls[i].op = op}

CallArgs(op) == {calls[i].arg : i \in CallIdx(op)}

CountCalls(op, arg) == Cardinality({i \in CallIdx(op) : calls[i].arg = arg})

AssignOps == {"pr.edit", "issue.edit", "requests.patch"}

AssignIdx == {i \in 1..Len(calls) : calls[i].op \in AssignOps}

\* sync_labels has re-read the catalog and computed to_add
CatalogRefreshed == pc \in {"add_labels", "remove_labels", "set_milestone"}

\* position of the re-read of the catalog in the call log (0: not yet)
RefreshIdx ==
    LET reads == CallIdx("repo.get_labels")
    IN  IF Cardinality(reads) < 2 THEN 0
        ELSE CHOOSE i \in reads : \A j \in reads : j <= i

ReservedNames == {L_IMPEX, L_CACHE, L_ITEMS, L_conflict}

(***************************************************************************)
(* C1.  Every remove_from_labels call of sync_labels names a label of the  *)
(* fixed set {IMPEX, CACHE, ITEMS, conflict} that was on the PR when the   *)
(* run read it and is not expected; every ticket-key label and every other *)
(* label outside the fixed set that was on the PR before the run is still  *)
(* on it.                                                                  *)
(***************************************************************************)
C1_RemovesOnlySystemLabels ==
    /\ \A i \in CallIdx("remove_from_labels") :
        /\ calls[i].arg \in ReservedNames
        /\ calls[i].arg \in current_labels
        /\ calls[i].arg \notin EXPECTED_LABELS
    /\ to_remove \subseteq ReservedNames
    /\ \A l \in current_labels : l \notin ReservedNames => l \in prLabels

C1_Witness ==
    /\ pc = "set_milestone"
    /\ \E i \in CallIdx("remove_from_labels") : calls[i].ok
    /\ L_bug \in current_labels
    /\ \E l \in current_labels : IsTicketKey(l) /\ l \notin EXPECTED_LABELS

C3_AddListIsExpectedMissingInCatalog ==
    CatalogRefreshed =>
        /\ to_add = (EXPECTED_LABELS \ current_labels) \cap repoCatalog
        /\ CallArgs("add_to_labels") \subseteq to_add
        /\ pc # "add_labels" => CallArgs("add_to_labels") = to_add

C3_Witness ==
    /\ pc = "set_milestone"
    /\ to_add # {}
    /\ EXPECTED_LABELS \cap current_labels # {}
    /\ \E l \in EXPECTED_LABELS \ current_labels : l \notin repoCatalog

(***************************************************************************)
(* C4.  Whatever add_to_labels and remove_from_labels calls fail, when     *)
(* sync_labels returns every label of the add-list has had exactly one add *)
(* attempt and every label of the remove-list exactly one remove attempt,  *)
(* and every add attempt comes before every remove attempt.                *)
(***************************************************************************)
C4_EveryLabelAttemptedOnce ==
    /\ \A l \in to_add : CountCalls("add_to_labels", l) <= 1
    /\ \A l \in to_remove : CountCalls("remove_from_labels", l) <= 1
    /\ \A i \in CallIdx("add_to_labels"), j \in CallIdx("remove_from_labels") :
           i < j
    /\ pc \in {"remove_labels", "set_milestone"} =>
           \A l \in to_add : CountCalls("add_to_labels", l) = 1
    /\ pc = "set_milestone" =>
           \A l \in to_remove : CountCalls("remove_from_labels", l) = 1

C4_Witness ==
    /\ pc = "set_milestone"
    /\ \E i, j \in CallIdx("add_to_labels") : i < j /\ ~calls[i].ok
    /\ \E i, j \in CallIdx("remove_from_labels") : i < j /\ ~calls[i].ok

(***************************************************************************)
(* C5.  No failing remote label call (create, add, remove) and no failing  *)
(* remote milestone call (catalog listing, create, the three assignment    *)
(* strategies) ends the process abnormally.                                *)
(***************************************************************************)
C5_RemoteFailuresAreNotFatal ==
    abortCause \notin {"create_label", "add_to_labels", "remove_from_labels",
                       "get_milestones", "create_milestone", "pr.edit",
                       "issue.edit", "requests.patch"}

(***************************************************************************)
(* C6.  The milestone name is decided by the prefix of the base branch:    *)
(* development -> sprint-dev, feature/marketplace -> marketplace,          *)
(* release/upgrade -> cloud, offline_kasa -> offline-kasa; with none of    *)
(* the four prefixes set_milestone returns without any remote call.        *)
(***************************************************************************)
C6_MilestoneByPrefix ==
    pc # "set_milestone" =>
        /\ StartsWith(base_branch, PREFIX_development) =>
               milestone_name = M_sprint_dev
        /\ StartsWith(base_branch, PREFIX_marketplace) =>
               milestone_name = M_marketplace
        /\ StartsWith(base_branch, PREFIX_upgrade) => milestone_name = M_cloud
        /\ StartsWith(base_branch, PREFIX_offline_kasa) =>
               milestone_name = M_offline_kasa
        /\ base_branch = B_development_foo => milestone_name = M_sprint_dev
        /\ base_branch = B_marketplace_x => milestone_name = M_marketplace
        /\ base_branch = B_upgrade_2 => milestone_name = M_cloud
        /\ base_branch = B_offline_kasa_v2 => milestone_name = M_offline_kasa
        /\ base_branch = B_hotfix_123 => milestone_name = None
        /\ (/\ ~StartsWith(base_branch, PREFIX_development)
            /\ ~StartsWith(base_branch, PREFIX_marketplace)
            /\ ~StartsWith(base_branch, PREFIX_upgrade)
            /\ ~StartsWith(base_branch, PREFIX_offline_kasa)) =>
               /\ milestone_name = None
               /\ pc = "done"
               /\ calls = << >>

C6_Witness ==
    /\ pc = "done"
    /\ base_branch = B_upgrade_2
    /\ milestone_name = M_cloud
    /\ prMilestone = M_cloud
    /\ Len(calls) > 0

(***************************************************************************)
(* C7.  The process never ends abnormally inside get_changed_files: an     *)
(* unavailable or failing diff command gives an empty list of records.     *)
(***************************************************************************)
C7_DiffFailsSoftly ==
    abortCause # "git_diff"

(***************************************************************************)
(* C8.  After check_label_conditions, IMPEX is expected exactly when some  *)
(* change record has a path ending in ".impex" and a status other than     *)
(* "D"; an unreadable .java file earlier in the list does not change that. *)
(***************************************************************************)
C8_ImpexIffLiveImpexFile ==
    pc = "extract_issue_keys" =>
        (L_IMPEX \in EXPECTED_LABELS
            <=> \E i \in 1..Len(files) :
                    /\ EndsWith(files[i].path, SUFFIX_impex)
                    /\ files[i].status # <<"D">>)

C8_Witness ==
    /\ pc = "extract_issue_keys"
    /\ Len(files) = 2
    /\ files[1].path = P_Service_java
    /\ ~fs[P_Service_java].readable
    /\ files[2].path = P_x_impex
    /\ files[2].status = <<"M">>
    /\ L_IMPEX \in EXPECTED_LABELS

(***************************************************************************)
(* C9.  The assignment calls of set_milestone are, in order, pr.edit,      *)
(* issue.edit and requests.patch, each one issued only right after the     *)
(* failure of the one before; nothing is called after a success; there is  *)
(* no assignment call when the PR already carries the milestone or when    *)
(* create_milestone failed; and when the milestone exists and is not on    *)
(* the PR at the end, all three strategies were tried and failed.          *)
(***************************************************************************)
C9_OrderedFallback ==
    /\ \A i \in AssignIdx : calls[i].ok => i = Len(calls)
    /\ \A i \in CallIdx("pr.edit") :
           /\ i > 1
           /\ calls[i - 1].op \in {"get_milestones", "create_milestone"}
           /\ calls[i - 1].ok
           /\ calls[i].arg = milestone_name
    /\ \A i \in CallIdx("issue.edit") :
           i > 1 /\ calls[i - 1].op = "pr.edit" /\ ~calls[i - 1].ok
    /\ \A i \in CallIdx("requests.patch") :
           i > 1 /\ calls[i - 1].op = "issue.edit" /\ ~calls[i - 1].ok
    /\ (\E i \in CallIdx("create_milestone") : ~calls[i].ok) => AssignIdx = {}
    /\ (/\ prMilestone # None
        /\ prMilestone = milestone_name
        /\ \A i \in AssignIdx : ~calls[i].ok) => AssignIdx = {}
    /\ (/\ pc = "done"
        /\ milestone_name # None
        /\ milestone_name \in repoMilestones
        /\ prMilestone # milestone_name) =>
           /\ Cardinality(AssignIdx) = 3
           /\ \A i \in AssignIdx : ~calls[i].ok

C9_Witness ==
    /\ pc = "done"
    /\ Len(calls) = 4
    /\ calls[2].op = "create_milestone" /\ calls[2].ok
    /\ calls[3].op = "pr.edit" /\ ~calls[3].ok
    /\ calls[4].op = "issue.edit" /\ calls[4].ok
    /\ prMilestone = milestone_name

(***************************************************************************)
(* C10.  create_label is called once for every expected ticket-key label   *)
(* missing from the catalog as first read, and for no other label; every   *)
(* create_label call comes before the re-read of the catalog, which comes  *)
(* before every add_to_labels call; a failed creation stops nothing; and a *)
(* label whose creation succeeded is in the add-list and has had its       *)
(* add_to_labels call when sync_labels returns (and is then on the PR if   *)
(* that call succeeded).                                                   *)
(***************************************************************************)
C10_CreateThenRefreshThenAdd ==
    /\ \A i \in CallIdx("create_label") :
           /\ IsTicketKey(calls[i].arg)
           /\ calls[i].arg \in EXPECTED_LABELS
           /\ calls[i].arg \notin ReservedNames
           /\ CountCalls("create_label", calls[i].arg) = 1
           /\ RefreshIdx # 0 => i < RefreshIdx
    /\ pc = "create_labels" =>
           CallArgs("create_label") \cap repo_labels = {}
    /\ CatalogRefreshed =>
           /\ RefreshIdx # 0
           /\ \A l \in EXPECTED_LABELS :
                  (IsTicketKey(l) /\ l \notin repoCatalog) =>
                      \E i \in CallIdx("create_label") :
                          calls[i].arg = l /\ ~calls[i].ok
           /\ \A i \in CallIdx("create_label") :
                  calls[i].ok => calls[i].arg \in to_add
    /\ \A j \in CallIdx("add_to_labels") : RefreshIdx # 0 /\ RefreshIdx < j
    /\ pc \in {"remove_labels", "set_milestone"} =>
           \A i \in CallIdx("create_label") :
               calls[i].ok =>
                   \E j \in CallIdx("add_to_labels") :
                       /\ calls[j].arg = calls[i].arg
                       /\ calls[j].ok => calls[i].arg \in prLabels

C10_Witness ==
    /\ pc = "set_milestone"
    /\ \E i, j \in CallIdx("create_label") :
           /\ i < j
           /\ ~calls[i].ok
           /\ calls[j].ok
           /\ calls[j].arg \in prLabels
           /\ calls[j].arg \notin current_labels

====
